---- MODULE Spec2Model ----
(***************************************************************************)
(* A model of the durable execution engine: the execution store (the       *)
(* executions, workflow_signals and worker_heartbeats tables), the worker  *)
(* runtime of src/workflows/worker.py, the client of                       *)
(* src/workflows/client.py and the replay context of                       *)
(* src/python/currant/context.py.                                          *)
(*                                                                         *)
(* Every SQL statement outside a transaction is one atomic step.  A        *)
(* transaction (READ COMMITTED, the asyncpg default) whose statements read *)
(* a row without locking it and later write it is two steps: the read,     *)
(* which sees the committed state, and the commit, which applies all its   *)
(* writes at once.                                                         *)
(***************************************************************************)
EXTENDS Integers, Sequences, FiniteSets, TLC

\* ---------------------------------------------------------------- bounds

\* Number of child ids generate_id("act") can hand out in one behaviour.
MaxChildren == 2
\* Number of send_signal calls in one behaviour.
MaxSignals == 2
\* Number of worker processes that may crash in one behaviour.
MaxCrashes == 2
\* Number of times the heartbeat of a running process lapses in one behaviour.
MaxTimeouts == 1
\* Number of asyncio tasks one worker process can hold at once.
MaxInflight == 1
\* Largest number of statements of a DSL workflow.
MaxStatements == 3
\* Largest max_retries a client enqueues a job with.
MaxRetries == 3
\* Number of stand-alone jobs clients enqueue in one behaviour.
MaxJobs == 2
\* Executions the rhythm worker claims in all.
MaxArrivals == 4

\* ------------------------------------------------------------- constants

Null == "null"
NoRow == [type |-> "none"]
NoResult == <<>>

Workers == {"wA", "wB", "wC"}

\* Ids: the workflow, the stand-alone task, and the pool generate_id draws from.
WF == "w1"
TK == "t1"
JobName == <<"t1", "t2", "t3", "t4">>
JobIds == {JobName[i] : i \in 1..MaxJobs}
ChildName == <<"a1", "a2", "a3", "a4">>
ChildIds == {ChildName[i] : i \in 1..MaxChildren}
ExecIds == {WF} \cup JobIds \cup ChildIds
SigName == <<"s1", "s2", "s3", "s4">>
SigIds == {SigName[i] : i \in 1..MaxSignals}

\* settings.worker_max_concurrent
worker_max_concurrent == MaxInflight

\* The registered workflow functions: the awaits of each in program order.
Program(fn) ==
    CASE fn = "order" -> << [op |-> "activity", name |-> "f", retries |-> 2] >>
      [] fn = "approve" -> << [op |-> "wait_signal", name |-> "approval", retries |-> 0] >>
      [] fn = "migrate" -> << [op |-> "version", name |-> "pricing", retries |-> 2],
                              [op |-> "activity", name |-> "f", retries |-> 2] >>
      [] fn = "sequential_tasks" ->
                           << [op |-> "activity", name |-> "good", retries |-> 2],
                              [op |-> "activity", name |-> "good", retries |-> 2] >>
      [] fn = "no_tasks" -> << >>
      [] OTHER -> << >>

\* The code each worker process was started with: wC runs a later release, in
\* which the change "pricing" of the workflow "migrate" has reached version 3.
Deployed(w, fn) ==
    IF w = "wC" /\ fn = "migrate"
    THEN << [op |-> "version", name |-> "pricing", retries |-> 3],
            [op |-> "activity", name |-> "f", retries |-> 2] >>
    ELSE Program(fn)

\* What a registered function may do when run: return its value, or raise.
Behaviour(fn) ==
    CASE fn = "f" -> {"return", "raise"}
      [] fn = "good" -> {"return"}
      [] fn = "bad" -> {"raise"}
      [] OTHER -> {"return"}

\* The value a function returns.
ReturnValue(fn) ==
    CASE fn = "f" -> 7
      [] fn = "good" -> 1
      [] OTHER -> 0

\* ------------------------------------------------------------- variables

VARIABLES
    executions,   \* the executions table: id -> row, or NoRow
    signals,      \* the workflow_signals table: id -> row, or NoRow
    heartbeats,   \* the worker_heartbeats table: worker -> row, or NoRow
    proc,         \* each worker process: "absent", "up", "stopping", "exited", "crashed"
    tasks,        \* each worker's asyncio execution tasks: slot -> task, or NoTask
    rec,          \* each worker's position in _recover_dead_worker_executions
    sends,        \* send_signal calls inside their transaction: id -> call, or NoCall
    crashes,      \* worker crashes so far
    timeouts,     \* heartbeat timeouts elapsed so far
    claimed,      \* per execution: claims since it was last put to pending
    runs,         \* per execution: times its function has been started
    requests,     \* per run of a workflow: the history it ran on and the commands it raised
    pool,         \* the rhythm worker's in-process state: local queue, semaphore, counters
    clock,        \* seconds elapsed
    retry_at,     \* per execution: the retry time its last failure computed
    notified,     \* the queues whose channel holds a NOTIFY not yet delivered
    dsl,          \* a DSL workflow: its program, statement index, status, and the worker task on it
    completions,  \* each currant worker's completion_queue: the (id, result) pairs not yet flushed
    tracking      \* the counter-based worker's loops, spawned tasks and current_executions

vars == <<executions, signals, heartbeats, proc, tasks, rec, sends, crashes, timeouts, claimed, runs, requests, pool, clock, retry_at, notified, dsl, completions, tracking>>

NoTask == [pc |-> "idle"]
NoCall == [pc |-> "none"]
NoDsl == [status |-> "none"]
Slots == 1..MaxInflight

\* --------------------------------------------------------------- helpers

Exists(id) == executions[id] # NoRow

\* Execution.from_record: the in-memory copy a worker holds of a claimed row.
FromRecord(id, row) ==
    [id |-> id,
     type |-> row.type,
     function_name |-> row.function_name,
     queue |-> row.queue,
     attempt |-> row.attempt,
     max_retries |-> row.max_retries,
     parent_workflow_id |-> row.parent_workflow_id,
     worker_id |-> row.worker_id,
     history |-> row.history]

\* self.current_executions: the tasks that have begun _execute_with_tracking.
CurrentExecutions(w) ==
    Cardinality({k \in Slots : tasks[w][k].pc \notin {"idle", "spawned"}})

FreeSlots(w) == {k \in Slots : tasks[w][k].pc = "idle"}

\* The lowest free slot of a worker.
FreeSlot(w) == CHOOSE k \in FreeSlots(w) : \A j \in FreeSlots(w) : k <= j

\* A new executions row as enqueue_execution and _handle_workflow_suspend insert it.
NewRow(type, fn, queue, priority, retries, parent, at) ==
    [type |-> type,
     function_name |-> fn,
     queue |-> queue,
     status |-> "pending",
     priority |-> priority,
     attempt |-> 0,
     max_retries |-> retries,
     result |-> NoResult,
     error |-> Null,
     parent_workflow_id |-> parent,
     worker_id |-> Null,
     history |-> <<>>,
     pending_commands |-> <<>>,
     created_at |-> at]

\* NOW() for created_at: the number of rows inserted so far.
Now == Cardinality({id \in ExecIds : Exists(id)})

\* ------------------------------------------------- the replay context

NoCommand == [type |-> "none", name |-> Null, id |-> Null, retries |-> 0]

\* The history event type a program step replays from.
EventType(op) == IF op = "wait_signal" THEN "signal" ELSE op

\* The workflow's return value: computed from the values its awaits returned.
RECURSIVE SumValues(_)
SumValues(h) == IF h = <<>> THEN 0 ELSE Head(h).value + SumValues(Tail(h))

\* One run of the workflow function under a WorkflowExecutionContext whose
\* history is h, from program step i (current_step_index = i - 1): each await
\* takes the next history event (get_next_history_event) and returns its value
\* when there is one (after the asserts on its type and name), and otherwise
\* records a command and raises WorkflowSuspendException; get_version appends
\* its event to the history and goes on.
RECURSIVE RunFrom(_, _, _)
RunFrom(prog, h, i) ==
    IF i > Len(prog)
    THEN [outcome |-> "completed", history |-> h, command |-> NoCommand,
          result |-> SumValues(h), position |-> i]
    ELSE LET step == prog[i] IN
         IF i <= Len(h)
         THEN IF h[i].type = EventType(step.op) /\ h[i].name = step.name
              THEN RunFrom(prog, h, i + 1)
              ELSE [outcome |-> "error", history |-> h, command |-> NoCommand,
                    result |-> 0, position |-> i]
         ELSE IF step.op = "version"
              THEN RunFrom(prog,
                           Append(h, [type |-> "version", name |-> step.name,
                                      value |-> step.retries, id |-> Null]),
                           i + 1)
              ELSE [outcome |-> "suspend", history |-> h,
                    command |-> [type |-> step.op, name |-> step.name,
                                 id |-> Null, retries |-> step.retries],
                    result |-> 0, position |-> i]

\* A run whose context is built without the stored checkpoint: every await
\* finds no event.
RunWorkflowWithoutCheckpoint(prog, h) == RunFrom(prog, <<>>, 1)
RunWorkflow(prog, h) == RunFrom(prog, h, 1)

\* ------------------------------------------- the rhythm worker's pool

\* Worker.__init__ of the rhythm worker: local_queue = Queue(maxsize =
\* worker_max_concurrent * 2), semaphore = Semaphore(worker_max_concurrent),
\* current_executions = 0, completion_queue = [].
InitPool ==
    [running |-> TRUE,
     local_queue |-> 0,
     waiting |-> 0,
     semaphore |-> worker_max_concurrent,
     current_executions |-> 0,
     completion_queue |-> 0,
     placed |-> 0,
     submitted |-> 0,
     arrived |-> 0]

\* _claimer_loop: with queue_space = maxsize - qsize > 0 it claims up to
\* queue_space executions and puts each into the local queue.
ClaimBatch(n) ==
    /\ pool.running
    /\ n <= 2 * worker_max_concurrent - pool.local_queue
    /\ pool.arrived + n <= MaxArrivals
    /\ pool' = [pool EXCEPT !.local_queue = @ + n, !.arrived = @ + n]
    /\ UNCHANGED <<executions, signals, heartbeats, proc, tasks, rec, sends, crashes, timeouts, claimed, runs, requests, clock, retry_at, notified, dsl, completions, tracking>>

\* _listener_loop: an execution is taken from the local queue and a task is
\* created for _execute_with_semaphore, which waits at "async with semaphore".
Listen ==
    /\ pool.running
    /\ pool.local_queue > 0
    /\ pool' = [pool EXCEPT !.local_queue = @ - 1, !.waiting = @ + 1]
    /\ UNCHANGED <<executions, signals, heartbeats, proc, tasks, rec, sends, crashes, timeouts, claimed, runs, requests, clock, retry_at, notified, dsl, completions, tracking>>

\* The semaphore lets a task in.
AcquireUnguarded(p) == TRUE

\* asyncio.Semaphore.acquire returns only while its value is positive.
Acquire(p) == p.semaphore > 0

\* _execute_with_semaphore, entry: the semaphore is acquired and
\* current_executions += 1, with no await in between.
Enter ==
    /\ pool.waiting > 0
    /\ Acquire(pool)
    /\ pool' = [pool EXCEPT !.waiting = @ - 1,
                            !.semaphore = @ - 1,
                            !.current_executions = @ + 1]
    /\ UNCHANGED <<executions, signals, heartbeats, proc, tasks, rec, sends, crashes, timeouts, claimed, runs, requests, clock, retry_at, notified, dsl, completions, tracking>>

\* _execute_with_semaphore, exit: _execute has returned, after appending the
\* result to the completion queue (success) or reporting the failure; the
\* finally does current_executions -= 1 and the semaphore is released.
Leave(ok) ==
    /\ pool.current_executions > 0
    /\ pool' = [pool EXCEPT !.current_executions = @ - 1,
                            !.semaphore = @ + 1,
                            !.completion_queue = IF ok THEN @ + 1 ELSE @,
                            !.placed = IF ok THEN @ + 1 ELSE @]
    /\ UNCHANGED <<executions, signals, heartbeats, proc, tasks, rec, sends, crashes, timeouts, claimed, runs, requests, clock, retry_at, notified, dsl, completions, tracking>>

\* _flush_completions: the batch is taken and the queue cleared, the batch
\* is submitted with complete_executions_batch, and when that raises the batch
\* is put back into the queue.
FlushCompletions(p, ok) ==
    IF ok
    THEN [p EXCEPT !.completion_queue = 0, !.submitted = @ + p.completion_queue]
    ELSE p

\* _completer_loop, while the worker runs: a flush every millisecond.
Flush ==
    /\ pool.running
    /\ pool.completion_queue > 0
    /\ \E ok \in BOOLEAN : pool' = FlushCompletions(pool, ok)
    /\ UNCHANGED <<executions, signals, heartbeats, proc, tasks, rec, sends, crashes, timeouts, claimed, runs, requests, clock, retry_at, notified, dsl, completions, tracking>>

\* Worker.stop of the rhythm worker: running = False, the loops (the completer
\* among them) are cancelled and _flush_completions is called once; the
\* execution tasks go on while stop waits for current_executions to reach 0.
StopPool ==
    /\ pool.running
    /\ \E ok \in BOOLEAN :
          pool' = [FlushCompletions(pool, ok) EXCEPT !.running = FALSE]
    /\ UNCHANGED <<executions, signals, heartbeats, proc, tasks, rec, sends, crashes, timeouts, claimed, runs, requests, clock, retry_at, notified, dsl, completions, tracking>>

\* ------------------------------------- the counter-based worker's loops

Loops == {"listener", "poll"}

\* Worker.__init__: current_executions = 0; no loop is inside
\* _try_claim_and_execute and no task has been created.
InitTracking ==
    [current_executions |-> 0,
     loops |-> [l \in Loops |-> "idle"],
     spawned |-> 0,
     backlog |-> 0,
     arrived |-> 0]

\* enqueue_execution: one more pending execution in the worker's queues.
Arrive ==
    /\ tracking.arrived < MaxArrivals
    /\ tracking' = [tracking EXCEPT !.backlog = @ + 1, !.arrived = @ + 1]
    /\ UNCHANGED <<executions, signals, heartbeats, proc, tasks, rec, sends, crashes, timeouts, claimed, runs, requests, pool, clock, retry_at, notified, dsl, completions>>

\* "if self.current_executions >= settings.worker_max_concurrent: return".
BelowCeiling(t) == t.current_executions < worker_max_concurrent

\* _try_claim_and_execute, called by _listener_loop or _poll_loop after its
\* asyncio.sleep, by when the tasks created earlier have started: the counter
\* is below the ceiling and the loop awaits _claim_execution.
TryClaim(l) ==
    /\ tracking.loops[l] = "idle"
    /\ tracking.spawned = 0
    /\ BelowCeiling(tracking)
    /\ tracking' = [tracking EXCEPT !.loops[l] = "claiming"]
    /\ UNCHANGED <<executions, signals, heartbeats, proc, tasks, rec, sends, crashes, timeouts, claimed, runs, requests, pool, clock, retry_at, notified, dsl, completions>>

\* _claim_execution returns to the loop: with a claimed execution a task is
\* created for _execute_with_tracking, with None nothing is done.
ClaimReturn(l) ==
    /\ tracking.loops[l] = "claiming"
    /\ tracking' = IF tracking.backlog > 0
                   THEN [tracking EXCEPT !.loops[l] = "idle",
                                         !.backlog = @ - 1,
                                         !.spawned = @ + 1]
                   ELSE [tracking EXCEPT !.loops[l] = "idle"]
    /\ UNCHANGED <<executions, signals, heartbeats, proc, tasks, rec, sends, crashes, timeouts, claimed, runs, requests, pool, clock, retry_at, notified, dsl, completions>>

\* _execute_with_tracking begins in a created task: current_executions += 1.
StartTracking ==
    /\ tracking.spawned > 0
    /\ tracking' = [tracking EXCEPT !.spawned = @ - 1,
                                    !.current_executions = @ + 1]
    /\ UNCHANGED <<executions, signals, heartbeats, proc, tasks, rec, sends, crashes, timeouts, claimed, runs, requests, pool, clock, retry_at, notified, dsl, completions>>

\* Its finally, after _execute has returned: current_executions -= 1.
EndTracking ==
    /\ tracking.current_executions > 0
    /\ tracking' = [tracking EXCEPT !.current_executions = @ - 1]
    /\ UNCHANGED <<executions, signals, heartbeats, proc, tasks, rec, sends, crashes, timeouts, claimed, runs, requests, pool, clock, retry_at, notified, dsl, completions>>

NextTracking ==
    \/ Arrive
    \/ \E l \in Loops : TryClaim(l) \/ ClaimReturn(l)
    \/ StartTracking
    \/ EndTracking

\* ------------------------------------------------------------------ Init

\* The row enqueue_execution("workflow", fn, ...) inserts (max_retries = 3).
WorkflowRow(fn) == NewRow("workflow", fn, "default", 5, 3, Null, 0)

FreshHeartbeat == [status |-> "running", fresh |-> TRUE]

\* The state after the workers in `up` have started and the workflow fn (when
\* not Null) has been enqueued.
InitWith(up, fn) ==
    /\ executions = [id \in ExecIds |->
                       IF id = WF /\ fn # Null THEN WorkflowRow(fn) ELSE NoRow]
    /\ signals = [s \in SigIds |-> NoRow]
    /\ proc = [w \in Workers |-> IF w \in up THEN "up" ELSE "absent"]
    /\ heartbeats = [w \in Workers |-> IF w \in up THEN FreshHeartbeat ELSE NoRow]
    /\ tasks = [w \in Workers |-> [k \in Slots |-> NoTask]]
    /\ rec = [w \in Workers |-> [pc |-> "idle", dead |-> {}]]
    /\ sends = [s \in SigIds |-> NoCall]
    /\ crashes = 0
    /\ timeouts = 0
    /\ claimed = [id \in ExecIds |-> 0]
    /\ runs = [id \in ExecIds |-> 0]
    /\ requests = {}
    /\ pool = InitPool
    /\ clock = 0
    /\ retry_at = [id \in ExecIds |-> 0]
    /\ notified = {}
    /\ dsl = NoDsl
    /\ completions = [w \in Workers |-> <<>>]
    /\ tracking = InitTracking

Init == InitWith({"wA", "wB"}, "order")

\* ---------------------------------------------------------------- client

\* enqueue_execution(exec_type = "job", ...): insert a stand-alone job.
EnqueueJob(id, fn, queue, priority, retries) ==
    /\ ~Exists(id)
    /\ executions' = [executions EXCEPT
                        ![id] = NewRow("job", fn, queue, priority, retries, Null, Now)]
    /\ claimed' = [claimed EXCEPT ![id] = 0]
    /\ notified' = notified \cup {queue}
    /\ UNCHANGED <<signals, heartbeats, proc, tasks, rec, sends, crashes, timeouts, runs, requests, pool, clock, retry_at, dsl, completions, tracking>>

\* enqueue_execution("job", "good", ...) with the defaults: the stand-alone task.
Enqueue ==
    /\ ~Exists(TK)
    /\ executions' = [executions EXCEPT
                        ![TK] = NewRow("job", "good", "default", 5, 3, Null, Now)]
    /\ claimed' = [claimed EXCEPT ![TK] = 0]
    /\ notified' = notified \cup {"default"}
    /\ UNCHANGED <<signals, heartbeats, proc, tasks, rec, sends, crashes, timeouts, runs, requests, pool, clock, retry_at, dsl, completions, tracking>>

\* cancel_execution: UPDATE ... SET status = 'failed' WHERE status IN
\* ('pending', 'suspended'); an execution in another status is left alone.
CancelRow(row) ==
    IF row.status \in {"pending", "suspended"}
    THEN [row EXCEPT !.status = "failed", !.error = "CancellationError"]
    ELSE row

CancelExecution(id) ==
    /\ Exists(id)
    /\ executions[id].status \in {"pending", "suspended"}
    /\ executions' = [executions EXCEPT ![id] = CancelRow(@)]
    /\ UNCHANGED <<signals, heartbeats, proc, tasks, rec, sends, crashes, timeouts, claimed, runs, requests, pool, clock, retry_at, notified, dsl, completions, tracking>>

\* The store operation fail(id, error, retry) of the core, which the rhythm
\* client and worker reach through RustBridge.fail_execution: back to pending
\* with the next attempt if retry and attempt + 1 < max_retries, failed
\* otherwise.
FailExecutionRow(row, error, retry) ==
    IF retry /\ row.attempt + 1 < row.max_retries
    THEN [row EXCEPT !.status = "pending", !.attempt = @ + 1, !.error = error,
                     !.worker_id = Null]
    ELSE [row EXCEPT !.status = "failed", !.error = error]

\* cancel_execution of the rhythm client: RustBridge.fail_execution(id,
\* CancellationError, retry = False), and True is returned unless it raised.
CancelByFail(id) ==
    /\ Exists(id)
    /\ executions' = [executions EXCEPT
                        ![id] = FailExecutionRow(@, "CancellationError", FALSE)]
    /\ UNCHANGED <<signals, heartbeats, proc, tasks, rec, sends, crashes, timeouts, claimed, runs, requests, pool, clock, retry_at, notified, dsl, completions, tracking>>

\* --------------------------------------------------------------- worker

\* Worker(queues = ...): the queues each worker was started with.
Queues(w) == IF w = "wC" THEN {"default", "other"} ELSE {"default"}

\* The inner SELECT without its status filter: the rows of the worker's queues,
\* those another worker holds included.
ClaimableAnyStatus(w) ==
    {id \in ExecIds : /\ Exists(id)
                      /\ executions[id].queue \in Queues(w)}

\* The rows the claim's inner SELECT matches: queue = ANY(queues), status pending.
Claimable(w) ==
    {id \in ExecIds : /\ Exists(id)
                      /\ executions[id].queue \in Queues(w)
                      /\ executions[id].status = "pending"}

\* ORDER BY created_at ASC LIMIT 1, the priority left out.
FirstByAge(S) ==
    {id \in S : \A o \in S : executions[id].created_at <= executions[o].created_at}

\* ORDER BY priority DESC, created_at ASC LIMIT 1.
First(S) ==
    {id \in S : \A o \in S :
        \/ executions[id].priority > executions[o].priority
        \/ /\ executions[id].priority = executions[o].priority
           /\ executions[id].created_at <= executions[o].created_at}

\* _try_claim_and_execute with a row to claim: one UPDATE ... RETURNING * marks the
\* row running for this worker, and the execution is handed to a new asyncio task.
Claim(w) ==
    /\ proc[w] = "up"
    /\ CurrentExecutions(w) < worker_max_concurrent
    /\ FreeSlots(w) # {}
    /\ \E id \in First(Claimable(w)) :
         LET row == [executions[id] EXCEPT !.status = "running", !.worker_id = w] IN
         /\ executions' = [executions EXCEPT ![id] = row]
         /\ tasks' = [tasks EXCEPT ![w][FreeSlot(w)] =
                         [pc |-> "spawned", exec |-> FromRecord(id, row)]]
         /\ claimed' = [claimed EXCEPT ![id] = @ + 1]
    /\ UNCHANGED <<signals, heartbeats, proc, rec, sends, crashes, timeouts, runs, requests, pool, clock, retry_at, notified, dsl, completions, tracking>>

\* _try_claim_and_execute with nothing to claim: _claim_execution returns None.
ClaimNone(w) ==
    /\ proc[w] = "up"
    /\ CurrentExecutions(w) < worker_max_concurrent
    /\ Claimable(w) = {}
    /\ UNCHANGED vars

\* _execute_with_tracking begins: current_executions += 1, and _execute calls
\* the function.
Start(w, k) ==
    /\ tasks[w][k].pc = "spawned"
    /\ tasks' = [tasks EXCEPT ![w][k].pc = "executing"]
    /\ runs' = [runs EXCEPT ![tasks[w][k].exec.id] = @ + 1]
    /\ UNCHANGED <<executions, signals, heartbeats, proc, rec, sends, crashes, timeouts, claimed,
                   requests, pool, clock, retry_at, notified, dsl, completions, tracking>>

\* The task of slot k of worker w and the execution it holds.
Task(w, k) == tasks[w][k]

\* The asyncio task ends: the finally of _execute_with_tracking frees the slot.
Done(w, k) == [tasks EXCEPT ![w][k] = NoTask]

IsWorkflow(e) == e.type = "workflow"

\* _execute_workflow: the function runs under a context built from the checkpoint
\* the claim returned.
Run(e) == RunWorkflow(Deployed(e.worker_id, e.function_name), e.history)

\* The first UPDATE of _complete_execution: SET status = 'completed', result,
\* worker_id = NULL WHERE id = $1.
CompleteRow(row, value) ==
    [row EXCEPT !.status = "completed", !.result = <<value>>, !.worker_id = Null]

\* The history event _resume_parent_workflow appends for a finished activity.
ActivityEvent(e, value) ==
    [type |-> "activity", name |-> e.function_name, value |-> value, id |-> e.id]

\* That UPDATE writing the checkpoint alone, the status left as it is.
ResumeRowCheckpointOnly(row, read, event) ==
    [row EXCEPT !.history = Append(read.history, event),
                !.pending_commands = read.pending_commands]

\* The UPDATE of _resume_parent_workflow: SET status = 'pending', checkpoint = $2
\* WHERE id = $1, the checkpoint being the one read earlier in the transaction
\* with the activity's event appended to its history.
ResumeRow(row, read, event) ==
    [row EXCEPT !.status = "pending",
                !.history = Append(read.history, event),
                !.pending_commands = read.pending_commands]

\* What a task returns or a workflow run completes with.
Outcome(e) == IF IsWorkflow(e) THEN Run(e).result ELSE ReturnValue(e.function_name)

\* get_function: the name is looked up in the registry, a missing name raises
\* ValueError inside the try of _execute.
Registry ==
    {"order", "approve", "migrate", "sequential_tasks", "no_tasks", "f", "good", "bad"}

get_function(name) == name \in Registry

Returns(e) ==
    /\ get_function(e.function_name)
    /\ IF IsWorkflow(e) THEN Run(e).outcome = "completed"
       ELSE "return" \in Behaviour(e.function_name)

Raises(e) ==
    \/ ~get_function(e.function_name)
    \/ IF IsWorkflow(e) THEN Run(e).outcome = "error"
       ELSE "raise" \in Behaviour(e.function_name)

\* _complete_execution of an execution without a parent: the function has
\* returned and the transaction holds the one UPDATE.
Complete(w, k) ==
    LET e == Task(w, k).exec IN
    /\ Task(w, k).pc = "executing"
    /\ Returns(e)
    /\ e.parent_workflow_id = Null
    /\ executions' = [executions EXCEPT ![e.id] = CompleteRow(@, Outcome(e))]
    /\ tasks' = Done(w, k)
    /\ UNCHANGED <<signals, heartbeats, proc, rec, sends, crashes, timeouts, claimed, runs, requests, pool, clock, retry_at, notified, dsl, completions, tracking>>

\* _complete_execution of an activity, up to the SELECT of the parent's
\* checkpoint in _resume_parent_workflow.
CompleteRead(w, k) ==
    LET e == Task(w, k).exec IN
    /\ Task(w, k).pc = "executing"
    /\ Returns(e)
    /\ e.parent_workflow_id # Null
    /\ tasks' = [tasks EXCEPT ![w][k] =
                    [pc |-> "completing", exec |-> e,
                     read |-> [history |-> executions[e.parent_workflow_id].history,
                               pending_commands |->
                                   executions[e.parent_workflow_id].pending_commands]]]
    /\ UNCHANGED <<executions, signals, heartbeats, proc, rec, sends, crashes, timeouts, claimed, runs, requests, pool, clock, retry_at, notified, dsl, completions, tracking>>

\* The rest of that transaction: the activity is completed and its parent is
\* re-queued with the appended history, at the commit.
CompleteCommit(w, k) ==
    LET e == Task(w, k).exec
        p == e.parent_workflow_id
        v == Outcome(e) IN
    /\ Task(w, k).pc = "completing"
    /\ executions' = [executions EXCEPT
                        ![e.id] = CompleteRow(@, v),
                        ![p] = ResumeRow(@, Task(w, k).read, ActivityEvent(e, v))]
    /\ claimed' = [claimed EXCEPT ![p] = 0]
    /\ tasks' = Done(w, k)
    /\ notified' = notified \cup {executions[Task(w, k).exec.parent_workflow_id].queue}
    /\ UNCHANGED <<signals, heartbeats, proc, rec, sends, crashes, timeouts, runs, requests, pool, clock, retry_at, dsl, completions, tracking>>

\* calculate_retry_delay(attempt, base = 2.0, max_delay = 60.0), in seconds.
base == 2
max_delay == 60

RECURSIVE Pow2(_)
Pow2(n) == IF n = 0 THEN 1 ELSE 2 * Pow2(n - 1)

Min(a, b) == IF a <= b THEN a ELSE b

calculate_retry_delay(attempt) == Min(base * Pow2(attempt), max_delay)

\* The two UPDATEs of _handle_execution_failure both writing the incremented
\* attempt.
FailRowStoringAttempt(row, e, error) ==
    [row EXCEPT !.status = IF e.attempt + 1 < e.max_retries THEN "pending" ELSE "failed",
                !.attempt = e.attempt + 1, !.error = error, !.worker_id = Null]

\* _handle_execution_failure: execution.attempt += 1 on the in-memory copy, then
\* the retry time is computed from calculate_retry_delay(attempt), then
\* one UPDATE: back to pending with the new attempt while attempt < max_retries,
\* and failed otherwise.
FailRow(row, e, error) ==
    IF e.attempt + 1 < e.max_retries
    THEN [row EXCEPT !.status = "pending", !.attempt = e.attempt + 1,
                     !.error = error, !.worker_id = Null]
    ELSE [row EXCEPT !.status = "failed", !.error = error, !.worker_id = Null]

ErrorOf(e) ==
    IF ~get_function(e.function_name) THEN "ValueError"
    ELSE IF IsWorkflow(e) THEN "AssertionError" ELSE "Exception"

Fail(w, k) ==
    LET e == Task(w, k).exec IN
    /\ Task(w, k).pc = "executing"
    /\ Raises(e)
    /\ executions' = [executions EXCEPT ![e.id] = FailRow(@, e, ErrorOf(e))]
    /\ claimed' = [claimed EXCEPT
                     ![e.id] = IF e.attempt + 1 < e.max_retries THEN 0 ELSE @]
    /\ retry_at' = [retry_at EXCEPT
                      ![e.id] = IF e.attempt + 1 < e.max_retries
                                THEN clock + calculate_retry_delay(e.attempt + 1)
                                ELSE @]
    /\ tasks' = Done(w, k)
    /\ UNCHANGED <<signals, heartbeats, proc, rec, sends, crashes, timeouts, runs, requests, pool, clock, notified, dsl, completions, tracking>>

\* generate_id("act"): the next unused child id.
Children == {c \in ChildIds : Exists(c)}
NewChildId == ChildName[Cardinality(Children) + 1]

\* The UPDATE of _handle_workflow_suspend: SET status = 'suspended',
\* checkpoint = {history: ctx.history, pending_commands: commands},
\* worker_id = NULL WHERE id = $1.
SuspendRow(row, history, commands) ==
    [row EXCEPT !.status = "suspended", !.history = history,
                !.pending_commands = commands, !.worker_id = Null]

\* _handle_workflow_suspend: one transaction without a read, which inserts the
\* activity's execution (in the workflow's queue) and writes the checkpoint.
Suspend(w, k) ==
    LET e == Task(w, k).exec
        r == Run(e) IN
    /\ Task(w, k).pc = "executing"
    /\ IsWorkflow(e)
    /\ r.outcome = "suspend"
    /\ IF r.command.type = "activity"
       THEN /\ Cardinality(Children) < MaxChildren
            /\ LET cmd == [r.command EXCEPT !.id = NewChildId] IN
               executions' = [executions EXCEPT
                   ![NewChildId] = NewRow("activity", cmd.name, e.queue, 5,
                                         cmd.retries, e.id, Now),
                   ![e.id] = SuspendRow(@, r.history, <<cmd>>)]
       ELSE executions' = [executions EXCEPT
                   ![e.id] = SuspendRow(@, r.history, <<r.command>>)]
    /\ tasks' = Done(w, k)
    /\ notified' = notified \cup {Task(w, k).exec.queue}
    /\ UNCHANGED <<signals, heartbeats, proc, rec, sends, crashes, timeouts, claimed, runs, requests, pool, clock, retry_at, dsl, completions, tracking>>

\* generate_id("act") in execute_activity: an id never generated before.
Generated ==
    Children \cup {c \in ChildIds : \E r \in requests : \E i \in 1..Len(r.commands) :
                                      r.commands[i].id = c}

GenerateId == ChildName[Cardinality(Generated) + 1]

\* _execute_workflow up to "except WorkflowSuspendException": the function has
\* run over the checkpoint the claim returned and its await has found no
\* history event, so that the command is recorded (an activity's under a
\* generated id) and raised.
Emit(w, k) ==
    LET e == Task(w, k).exec
        r == Run(e)
        cmd == IF r.command.type = "activity"
               THEN [r.command EXCEPT !.id = GenerateId]
               ELSE r.command IN
    /\ Task(w, k).pc = "executing"
    /\ IsWorkflow(e)
    /\ get_function(e.function_name)
    /\ r.outcome = "suspend"
    /\ Cardinality(Generated) < MaxChildren
    /\ tasks' = [tasks EXCEPT ![w][k] =
                    [pc |-> "suspending", exec |-> e, history |-> r.history,
                     commands |-> <<cmd>>]]
    /\ requests' = requests \cup
                       {[workflow |-> e.id, history |-> e.history,
                         recorded |-> r.history, position |-> r.position,
                         commands |-> <<cmd>>]}
    /\ UNCHANGED <<executions, signals, heartbeats, proc, rec, sends, crashes, timeouts, claimed, runs, pool, clock, retry_at, notified, dsl, completions, tracking>>

\* _handle_workflow_suspend for the commands raised: the transaction inserts
\* each activity's execution and writes the checkpoint.
SuspendEmitted(w, k) ==
    LET e == Task(w, k).exec
        cmd == Task(w, k).commands[1] IN
    /\ Task(w, k).pc = "suspending"
    /\ IF cmd.type = "activity"
       THEN executions' = [executions EXCEPT
                   ![cmd.id] = NewRow("activity", cmd.name, e.queue, 5,
                                      cmd.retries, e.id, Now),
                   ![e.id] = SuspendRow(@, Task(w, k).history, Task(w, k).commands)]
       ELSE executions' = [executions EXCEPT
                   ![e.id] = SuspendRow(@, Task(w, k).history, Task(w, k).commands)]
    /\ tasks' = Done(w, k)
    /\ notified' = notified \cup {Task(w, k).exec.queue}
    /\ UNCHANGED <<signals, heartbeats, proc, rec, sends, crashes, timeouts, claimed, runs, requests, pool, clock, retry_at, dsl, completions, tracking>>

\* ------------------------------------------------ heartbeats, recovery

\* _update_heartbeat(RUNNING) in _heartbeat_loop: the upsert of the worker's row.
Heartbeat(w) ==
    /\ proc[w] = "up"
    /\ heartbeats' = [heartbeats EXCEPT ![w] = FreshHeartbeat]
    /\ UNCHANGED <<executions, signals, proc, tasks, rec, sends, crashes, timeouts, claimed, runs, requests, pool, clock, retry_at, notified, dsl, completions, tracking>>

\* worker_heartbeat_timeout elapses since the worker's last heartbeat.
TimePasses(w) ==
    /\ heartbeats[w] # NoRow
    /\ heartbeats[w].fresh
    /\ timeouts' = timeouts + 1
    /\ heartbeats' = [heartbeats EXCEPT ![w].fresh = FALSE]
    /\ UNCHANGED <<executions, signals, proc, tasks, rec, sends, crashes, claimed, runs, requests, pool, clock, retry_at, notified, dsl, completions, tracking>>

\* The SELECT of _recover_dead_worker_executions: status = 'running' AND
\* last_heartbeat < threshold.
DeadWorkers ==
    {v \in Workers : /\ heartbeats[v] # NoRow
                     /\ heartbeats[v].status = "running"
                     /\ ~heartbeats[v].fresh}

\* The recovery reads the dead workers.
RecoverSelect(w) ==
    /\ proc[w] = "up"
    /\ rec[w].pc = "idle"
    /\ rec' = [rec EXCEPT ![w] = [pc |-> "selected", dead |-> DeadWorkers]]
    /\ UNCHANGED <<executions, signals, heartbeats, proc, tasks, sends, crashes, timeouts, claimed, runs, requests, pool, clock, retry_at, notified, dsl, completions, tracking>>

\* "if not dead_workers: return".
RecoverNone(w) ==
    /\ proc[w] = "up"
    /\ rec[w].pc = "selected"
    /\ rec[w].dead = {}
    /\ rec' = [rec EXCEPT ![w] = [pc |-> "idle", dead |-> {}]]
    /\ UNCHANGED <<executions, signals, heartbeats, proc, tasks, sends, crashes, timeouts, claimed, runs, requests, pool, clock, retry_at, notified, dsl, completions, tracking>>

\* UPDATE worker_heartbeats SET status = 'stopped' WHERE worker_id = ANY($1).
RecoverMark(w) ==
    /\ proc[w] = "up"
    /\ rec[w].pc = "selected"
    /\ rec[w].dead # {}
    /\ heartbeats' = [v \in Workers |->
                        IF v \in rec[w].dead /\ heartbeats[v] # NoRow
                        THEN [heartbeats[v] EXCEPT !.status = "stopped"]
                        ELSE heartbeats[v]]
    /\ rec' = [rec EXCEPT ![w].pc = "marked"]
    /\ UNCHANGED <<executions, signals, proc, tasks, sends, crashes, timeouts, claimed, runs, requests, pool, clock, retry_at, notified, dsl, completions, tracking>>

\* UPDATE executions SET status = 'pending', worker_id = NULL WHERE
\* worker_id = ANY($1) AND status IN ('running', 'suspended').
Recovered(row, dead) ==
    /\ row # NoRow
    /\ row.worker_id \in dead
    /\ row.status \in {"running", "suspended"}

RecoverRow(row, dead) ==
    IF Recovered(row, dead)
    THEN [row EXCEPT !.status = "pending", !.worker_id = Null]
    ELSE row

RecoverReset(w) ==
    /\ proc[w] = "up"
    /\ rec[w].pc = "marked"
    /\ executions' = [id \in ExecIds |-> RecoverRow(executions[id], rec[w].dead)]
    /\ claimed' = [id \in ExecIds |->
                     IF Recovered(executions[id], rec[w].dead) THEN 0 ELSE claimed[id]]
    /\ rec' = [rec EXCEPT ![w] = [pc |-> "idle", dead |-> {}]]
    /\ UNCHANGED <<signals, heartbeats, proc, tasks, sends, crashes, timeouts, runs, requests, pool, clock, retry_at, notified, dsl, completions, tracking>>

\* --------------------------------------------------- process lifecycle

\* Worker.stop: running = False, the four loops are cancelled (a recovery under
\* way is abandoned where it stands) and the heartbeat row is written 'stopped';
\* the execution tasks go on.
Stop(w) ==
    /\ proc[w] = "up"
    /\ proc' = [proc EXCEPT ![w] = "stopping"]
    /\ rec' = [rec EXCEPT ![w] = [pc |-> "idle", dead |-> {}]]
    /\ heartbeats' = [heartbeats EXCEPT ![w] = [status |-> "stopped", fresh |-> TRUE]]
    /\ UNCHANGED <<executions, signals, tasks, sends, crashes, timeouts, claimed, runs, requests, pool, clock, retry_at, notified, dsl, completions, tracking>>

\* The wait of Worker.stop ends (no execution left, or the 30 s are over) and
\* the process exits with whatever tasks it still holds.
Exit(w) ==
    /\ proc[w] = "stopping"
    /\ proc' = [proc EXCEPT ![w] = "exited"]
    /\ tasks' = [tasks EXCEPT ![w] = [k \in Slots |-> NoTask]]
    /\ UNCHANGED <<executions, signals, heartbeats, rec, sends, crashes, timeouts, claimed, runs, requests, pool, clock, retry_at, notified, dsl, completions, tracking>>

\* The process dies: its tasks, its recovery and its open transactions are gone.
Crash(w) ==
    /\ proc[w] \in {"up", "stopping"}
    /\ crashes < MaxCrashes
    /\ crashes' = crashes + 1
    /\ proc' = [proc EXCEPT ![w] = "crashed"]
    /\ tasks' = [tasks EXCEPT ![w] = [k \in Slots |-> NoTask]]
    /\ rec' = [rec EXCEPT ![w] = [pc |-> "idle", dead |-> {}]]
    /\ UNCHANGED <<executions, signals, heartbeats, sends, timeouts, claimed, runs, requests, pool, clock, retry_at, notified, dsl, completions, tracking>>

\* ----------------------------------------------------------- send_signal

SigIndex(s) == CHOOSE i \in 1..MaxSignals : SigName[i] = s

\* generate_id("sig"): the next unused signal id.
Sent == {s \in SigIds : signals[s] # NoRow \/ sends[s] # NoCall}
NewSignalId == SigName[Cardinality(Sent) + 1]

\* "Check if any pending command is waiting for this signal".
SignalFound(commands, name) ==
    \E i \in 1..Len(commands) :
        commands[i].type = "wait_signal" /\ commands[i].name = name

\* send_signal up to the SELECT of the workflow's status and checkpoint.
SendSignalRead(name) ==
    /\ Cardinality(Sent) < MaxSignals
    /\ sends' = [sends EXCEPT ![NewSignalId] =
                    [pc |-> "read", name |-> name,
                     status |-> executions[WF].status,
                     history |-> executions[WF].history,
                     pending_commands |-> executions[WF].pending_commands]]
    /\ UNCHANGED <<executions, signals, heartbeats, proc, tasks, rec, crashes, timeouts, claimed, runs, requests, pool, clock, retry_at, notified, dsl, completions, tracking>>

\* "If workflow is suspended and waiting for this signal, resume it".
Delivers(call) ==
    SignalFound(call.pending_commands, call.name) /\ call.status = "suspended"

SignalEvent(s, call) ==
    [type |-> "signal", name |-> call.name, value |-> SigIndex(s), id |-> s]

\* The UPDATE of send_signal: SET status = 'pending', checkpoint = $2 WHERE
\* id = $1, the checkpoint being the one read with the signal's event appended
\* and the pending commands cleared.
SignalRow(row, s, call) ==
    [row EXCEPT !.status = "pending",
                !.history = Append(call.history, SignalEvent(s, call)),
                !.pending_commands = <<>>]

\* The commit of send_signal: the signal row is inserted, consumed when the
\* workflow was resumed.
SendSignalCommit(s) ==
    LET call == sends[s] IN
    /\ call # NoCall
    /\ signals' = [signals EXCEPT ![s] =
                      [workflow_id |-> WF, signal_name |-> call.name,
                       payload |-> SigIndex(s), consumed |-> Delivers(call)]]
    /\ sends' = [sends EXCEPT ![s] = NoCall]
    /\ IF Delivers(call)
       THEN /\ executions' = [executions EXCEPT ![WF] = SignalRow(@, s, call)]
            /\ claimed' = [claimed EXCEPT ![WF] = 0]
            /\ notified' = notified \cup {executions[WF].queue}
       ELSE UNCHANGED <<executions, claimed, notified, dsl, completions, tracking>>
    /\ UNCHANGED <<heartbeats, proc, tasks, rec, crashes, timeouts, runs, requests, pool, clock, retry_at, dsl, completions, tracking>>

\* ------------------------------------------------------------------ Next

\* The steps of one execution task of a worker.
TaskStep(w) ==
    \E k \in Slots :
        \/ Start(w, k)
        \/ Complete(w, k)
        \/ CompleteRead(w, k)
        \/ CompleteCommit(w, k)
        \/ Fail(w, k)
        \/ Suspend(w, k)

\* The workflow "order" on two workers whose heartbeats may lapse while they
\* run (a stalled event loop, a partition), with the recovery.  A recovery that
\* finds no dead worker returns without a write and is left out.
Next ==
    \E w \in Workers :
        \/ Claim(w)
        \/ ClaimNone(w)
        \/ TaskStep(w)
        \/ Heartbeat(w)
        \/ (timeouts < MaxTimeouts /\ TimePasses(w))
        \/ (DeadWorkers # {} /\ RecoverSelect(w))
        \/ RecoverMark(w)
        \/ RecoverReset(w)

Spec == Init /\ [][Next]_vars

\* The same workflow on three workers that may stop, exit and crash, with the
\* client's cancellation; a heartbeat lapses only once its process has gone.
InitLifecycle == InitWith(Workers, "order")

NextLifecycle ==
    \/ \E id \in ExecIds : CancelExecution(id)
    \/ \E w \in Workers :
         \/ Claim(w)
         \/ ClaimNone(w)
         \/ TaskStep(w)
         \/ Heartbeat(w)
         \/ (proc[w] \in {"crashed", "exited"} /\ TimePasses(w))
         \/ RecoverSelect(w)
         \/ RecoverNone(w)
         \/ RecoverMark(w)
         \/ RecoverReset(w)
         \/ Stop(w)
         \/ Exit(w)
         \/ Crash(w)

SpecLifecycle == InitLifecycle /\ [][NextLifecycle]_vars

\* The workflow "approve" on two workers, and the send_signal calls of clients.
InitSignal == InitWith({"wA", "wB"}, "approve")

NextSignal ==
    \/ SendSignalRead("approval")
    \/ \E s \in SigIds : SendSignalCommit(s)
    \/ \E w \in Workers :
         \/ Claim(w)
         \/ ClaimNone(w)
         \/ \E k \in Slots : Start(w, k) \/ Suspend(w, k) \/ Complete(w, k)

SpecSignal == InitSignal /\ [][NextSignal]_vars

\* A stand-alone task on three workers of which at least one stays alive.
InitLive == InitWith(Workers, Null)

OthersUp(w) == \E v \in Workers \ {w} : proc[v] = "up"

NextLive ==
    \/ Enqueue
    \/ \E w \in Workers :
         \/ Claim(w)
         \/ ClaimNone(w)
         \/ \E k \in Slots : Start(w, k) \/ Complete(w, k)
         \/ Heartbeat(w)
         \/ (proc[w] = "crashed" /\ TimePasses(w))
         \/ (DeadWorkers # {} /\ RecoverSelect(w))
         \/ RecoverMark(w)
         \/ RecoverReset(w)
         \/ (OthersUp(w) /\ Crash(w))

\* The scheduling of the live processes: the asyncio loop of a worker that is up
\* keeps running its listener, its execution tasks and its recovery loop, and
\* the clock keeps running after a process has died.
LiveFairness ==
    \A w \in Workers :
        /\ WF_vars(Claim(w))
        /\ WF_vars(\E k \in Slots : Start(w, k) \/ Complete(w, k))
        /\ WF_vars(DeadWorkers # {} /\ RecoverSelect(w))
        /\ WF_vars(RecoverMark(w))
        /\ WF_vars(RecoverReset(w))
        /\ WF_vars(proc[w] = "crashed" /\ TimePasses(w))

SpecLive == InitLive /\ [][NextLive]_vars /\ LiveFairness

\* Jobs that raise on every run ("bad") or on some ("f"), enqueued with any
\* max_retries, on two workers that stay up.
InitRetry == InitWith({"wA", "wB"}, Null)

NextRetry ==
    \/ \E id \in JobIds : \E fn \in {"bad", "f"} : \E n \in 0..MaxRetries :
          EnqueueJob(id, fn, "default", 5, n)
    \/ \E w \in Workers :
         \/ Claim(w)
         \/ ClaimNone(w)
         \/ \E k \in Slots : Start(w, k) \/ Complete(w, k) \/ Fail(w, k)

SpecRetry == InitRetry /\ [][NextRetry]_vars

\* The same jobs on three workers that may crash, with the recovery.
InitRetryRecover == InitWith(Workers, Null)

NextRetryRecover ==
    \/ \E fn \in {"bad", "f"} : \E n \in 0..MaxRetries :
          EnqueueJob(TK, fn, "default", 5, n)
    \/ \E w \in Workers :
         \/ Claim(w)
         \/ ClaimNone(w)
         \/ \E k \in Slots : Start(w, k) \/ Complete(w, k) \/ Fail(w, k)
         \/ Heartbeat(w)
         \/ (proc[w] = "crashed" /\ TimePasses(w))
         \/ (DeadWorkers # {} /\ RecoverSelect(w))
         \/ RecoverMark(w)
         \/ RecoverReset(w)
         \/ Crash(w)

SpecRetryRecover == InitRetryRecover /\ [][NextRetryRecover]_vars

\* The listener's connection receives a notification of channel queue_<q>:
\* the callback registered with add_listener does nothing.
OnNotify(q) ==
    /\ q \in notified
    /\ notified' = notified \ {q}
    /\ UNCHANGED <<executions, signals, heartbeats, proc, tasks, rec, sends, crashes, timeouts, claimed, runs, requests, pool, clock, retry_at, dsl, completions, tracking>>

\* The same jobs, workers, crashes and recovery, with the delivery of the
\* notifications to the listeners.
NextNotify ==
    \/ NextRetryRecover
    \/ \E q \in {"default"} : OnNotify(q)

SpecNotify == InitRetryRecover /\ [][NextNotify]_vars

\* Jobs enqueued on two queues with any of three priorities; wA serves the
\* queue "default", wC serves both.
Priorities == {1, 5, 10}

InitDispatch == InitWith({"wA", "wC"}, Null)

NextDispatch ==
    \/ \E id \in JobIds : \E q \in {"default", "other"} : \E pr \in Priorities :
          EnqueueJob(id, "good", q, pr, 3)
    \/ \E w \in Workers :
         \/ Claim(w)
         \/ ClaimNone(w)
         \/ \E k \in Slots : Start(w, k) \/ Complete(w, k)

SpecDispatch == InitDispatch /\ [][NextDispatch]_vars

\* A pending workflow whose stored history is empty or was recorded by an
\* earlier version of its function (the workers were redeployed with changed
\* workflow code): an activity of another name, an event of another type, a
\* version check of another change id.
RecordedEvent(type, name) == [type |-> type, name |-> name, value |-> 1, id |-> Null]

ReplayCases ==
    {[fn |-> "order", history |-> <<>>],
     [fn |-> "order", history |-> <<RecordedEvent("activity", "g")>>],
     [fn |-> "order", history |-> <<RecordedEvent("signal", "approval")>>],
     [fn |-> "approve", history |-> <<RecordedEvent("signal", "rejection")>>],
     [fn |-> "migrate", history |-> <<RecordedEvent("version", "billing")>>],
     [fn |-> "migrate", history |-> <<RecordedEvent("version", "pricing")>>]}

InitReplay ==
    \E c \in ReplayCases : \E n \in 1..MaxRetries :
        /\ executions = [id \in ExecIds |->
                           IF id = WF
                           THEN [NewRow("workflow", c.fn, "default", 5, n, Null, 0)
                                    EXCEPT !.history = c.history]
                           ELSE NoRow]
        /\ signals = [s \in SigIds |-> NoRow]
        /\ proc = [w \in Workers |-> IF w \in {"wA", "wB"} THEN "up" ELSE "absent"]
        /\ heartbeats = [w \in Workers |->
                           IF w \in {"wA", "wB"} THEN FreshHeartbeat ELSE NoRow]
        /\ tasks = [w \in Workers |-> [k \in Slots |-> NoTask]]
        /\ rec = [w \in Workers |-> [pc |-> "idle", dead |-> {}]]
        /\ sends = [s \in SigIds |-> NoCall]
        /\ crashes = 0
        /\ timeouts = 0
        /\ claimed = [id \in ExecIds |-> 0]
        /\ runs = [id \in ExecIds |-> 0]
        /\ requests = {}
        /\ pool = InitPool
        /\ clock = 0
        /\ retry_at = [id \in ExecIds |-> 0]
        /\ notified = {}
        /\ dsl = NoDsl
        /\ completions = [w \in Workers |-> <<>>]
        /\ tracking = InitTracking

NextReplay ==
    \E w \in Workers : Claim(w) \/ ClaimNone(w) \/ TaskStep(w)

SpecReplay == InitReplay /\ [][NextReplay]_vars

\* ---------------------------------------------------------------- claims

\* The workers holding an execution task of execution id: from the claim until
\* the task has reported completion, failure or suspension.
Holders(id) ==
    {w \in Workers : \E k \in Slots :
        tasks[w][k].pc # "idle" /\ tasks[w][k].exec.id = id}

\* C1: a pending execution is handed to at most one claimer: between two claims
\* of the same execution it has been put back to pending (by a retry, a resume
\* or the recovery), under any interleaving of the workers' claims.
C1_ClaimedOnce == \A id \in ExecIds : claimed[id] <= 1

\* C1 happens: an execution that was put back to pending by a retry is held by
\* one claimer while another worker is up with room to claim.
C1_Witness ==
    \E id \in ExecIds : \E w, v \in Workers :
        /\ w # v
        /\ Exists(id)
        /\ executions[id].status = "running"
        /\ executions[id].worker_id = w
        /\ executions[id].attempt > 0
        /\ claimed[id] = 1
        /\ proc[v] = "up"
        /\ FreeSlots(v) # {}

\* C2: in every reachable state each execution is being executed by at most one
\* worker, also after recover_dead has re-queued the executions of a worker
\* whose heartbeat is older than the timeout.
C2_SingleExecutor == \A id \in ExecIds : Cardinality(Holders(id)) <= 1

\* The number of task-result events of child c in history h.
RECURSIVE TaskResults(_, _)
TaskResults(h, c) ==
    IF h = <<>> THEN 0
    ELSE (IF Head(h).type = "activity" /\ Head(h).id = c THEN 1 ELSE 0)
         + TaskResults(Tail(h), c)

ChildrenOf(p) == {c \in ExecIds : Exists(c) /\ executions[c].parent_workflow_id = p}

\* C3: when a workflow is completed or failed, its history holds exactly one
\* task-result event for each child execution it created.
C3_OneResultPerChild ==
    \A p \in ExecIds :
        (Exists(p) /\ executions[p].type = "workflow"
            /\ executions[p].status \in {"completed", "failed"})
        => \A c \in ChildrenOf(p) : TaskResults(executions[p].history, c) = 1

IsPrefix(a, b) == Len(a) <= Len(b) /\ SubSeq(b, 1, Len(a)) = a

\* C4: the stored history of a workflow only grows by appending at its end:
\* every write of the checkpoint keeps the earlier history as a prefix.
C4_HistoryAppendOnly ==
    [][\A p \in ExecIds :
          (Exists(p) /\ executions[p].type = "workflow")
          => IsPrefix(executions[p].history, executions'[p].history)]_vars

\* C5: completed and failed are absorbing: no later operation changes the
\* status, the result or the error of an execution that has reached one.
C5_TerminalAbsorbing ==
    [][\A id \in ExecIds :
          (Exists(id) /\ executions[id].status \in {"completed", "failed"})
          => /\ executions'[id].status = executions[id].status
             /\ executions'[id].result = executions[id].result
             /\ executions'[id].error = executions[id].error]_vars

\* The stored signals of a name that no wait has consumed.
Unconsumed(name) ==
    {s \in SigIds : /\ signals[s] # NoRow
                    /\ signals[s].signal_name = name
                    /\ ~signals[s].consumed}

NoSendInFlight == \A s \in SigIds : sends[s] = NoCall

\* C6: a send_signal and a wait_for_signal on the same name deliver the payload
\* in either order: the workflow is never left suspended on a wait for a name of
\* which the store holds a signal that was sent and not consumed.
C6_SignalNotLost ==
    ~ /\ NoSendInFlight
      /\ executions[WF].status = "suspended"
      /\ \E s \in Unconsumed("approval") :
            SignalFound(executions[WF].pending_commands, signals[s].signal_name)

\* The number of signal events of signal s in history h.
RECURSIVE SignalEvents(_, _)
SignalEvents(h, s) ==
    IF h = <<>> THEN 0
    ELSE (IF Head(h).type = "signal" /\ Head(h).id = s THEN 1 ELSE 0)
         + SignalEvents(Tail(h), s)

Consumed == {s \in SigIds : signals[s] # NoRow /\ signals[s].consumed}

\* C7: of the send_signal calls that run against a workflow suspended on a
\* single wait, exactly one signal is marked consumed and exactly one signal
\* event is appended to the history; the other signals stay unconsumed.
C7_OneSignalPerWait ==
    /\ Cardinality(Consumed) <= 1
    /\ \A s \in Consumed : SignalEvents(executions[WF].history, s) = 1

\* No execution is running for a worker whose heartbeat row is stopped.
NoneRunningForStopped ==
    \A id \in ExecIds :
        (Exists(id) /\ executions[id].status = "running")
        => \A w \in Workers :
              (executions[id].worker_id = w /\ heartbeats[w] # NoRow)
              => heartbeats[w].status # "stopped"

\* C8: after a run of recover_dead has finished, no execution is running with
\* a worker_id whose heartbeat row is stopped.
C8_NoneRunningForStopped ==
    [][\A w \in Workers :
          (rec[w].pc # "idle" /\ rec'[w].pc = "idle" /\ proc'[w] = "up")
          => NoneRunningForStopped']_vars

\* C9: an execution that is running for a worker that has died eventually
\* returns to pending with its worker_id cleared, while a live worker keeps
\* running its recovery loop.
C9_DeadClaimRecovered ==
    \A id \in ExecIds :
        (Exists(id) /\ executions[id].status = "running"
            /\ executions[id].worker_id \in Workers
            /\ proc[executions[id].worker_id] = "crashed")
        ~> (Exists(id) /\ executions[id].status = "pending"
               /\ executions[id].worker_id = Null)

\* C10: every enqueued task whose function succeeds when run eventually
\* reaches completed, with at least one live worker and finitely many crashes.
C10_TaskCompletes ==
    Exists(TK) ~> (Exists(TK) /\ executions[TK].status = "completed"
                      /\ executions[TK].result = <<ReturnValue("good")>>)

\* The workflow "order" on three workers that may crash, one of which at least
\* stays alive, under the scheduling of the live processes.
InitResume == InitWith(Workers, "order")

NextResume ==
    \E w \in Workers :
        \/ Claim(w)
        \/ ClaimNone(w)
        \/ TaskStep(w)
        \/ Heartbeat(w)
        \/ (proc[w] = "crashed" /\ TimePasses(w))
        \/ (DeadWorkers # {} /\ RecoverSelect(w))
        \/ RecoverMark(w)
        \/ RecoverReset(w)
        \/ (OthersUp(w) /\ Crash(w))

ResumeFairness ==
    \A w \in Workers :
        /\ WF_vars(Claim(w))
        /\ WF_vars(TaskStep(w))
        /\ WF_vars(DeadWorkers # {} /\ RecoverSelect(w))
        /\ WF_vars(RecoverMark(w))
        /\ WF_vars(RecoverReset(w))
        /\ WF_vars(proc[w] = "crashed" /\ TimePasses(w))

SpecResume == InitResume /\ [][NextResume]_vars /\ ResumeFairness

\* Child c has its result event in its parent's history.
HasResult(c) ==
    TaskResults(executions[executions[c].parent_workflow_id].history, c) >= 1

C12_FailedChildResumesParent ==
    /\ [][\A c \in ChildIds :
             (Exists(c) /\ executions[c].status # "failed"
                 /\ executions'[c].status = "failed")
             => (executions'[WF].status = "failed" => executions[WF].status = "failed")]_vars
    /\ \A c \in ChildIds :
          (Exists(c) /\ executions[c].status = "failed")
          ~> (Exists(c) /\ HasResult(c) /\ executions[WF].status # "suspended")

\* The await positions of program prog that run activity fn.
AwaitsOf(prog, fn) ==
    {i \in 1..Len(prog) : prog[i].op = "activity" /\ prog[i].name = fn}

\* The children of workflow p created for the await at position i of its program.
ChildrenAt(p, i) ==
    {c \in ChildrenOf(p) :
        i \in AwaitsOf(Program(executions[p].function_name),
                       executions[c].function_name)}

\* C13: for every workflow and every await position of its program at most one
\* child execution is ever created, whatever crashes, recoveries, retries and
\* replays the workflow goes through.
C13_OneChildPerAwait ==
    \A p \in ExecIds :
        (Exists(p) /\ executions[p].type = "workflow")
        => \A i \in 1..Len(Program(executions[p].function_name)) :
              Cardinality(ChildrenAt(p, i)) <= 1

\* C14: a job with max_retries = N >= 1 whose function raises on every run is
\* run at most N times, and once it is failed it has been run exactly N times
\* and its row holds attempt = N, the error of the last run and no result.
C14_FailsAfterNRuns ==
    \A id \in JobIds :
        (Exists(id) /\ executions[id].function_name = "bad"
            /\ executions[id].max_retries >= 1)
        => /\ runs[id] <= executions[id].max_retries
           /\ executions[id].status = "failed"
              => /\ runs[id] = executions[id].max_retries
                 /\ executions[id].attempt = executions[id].max_retries
                 /\ executions[id].error = ErrorOf(FromRecord(id, executions[id]))
                 /\ executions[id].result = NoResult

\* C15: in every reachable state every execution has 0 <= attempt <=
\* max_retries, for every max_retries >= 0 and through failures, retries and
\* recoveries.
C15_AttemptWithinRetries ==
    \A id \in ExecIds :
        Exists(id) => /\ 0 <= executions[id].attempt
                      /\ executions[id].attempt <= executions[id].max_retries

\* C15 happens: a job enqueued with max_retries = 0 was claimed by a worker that
\* died, was put back to pending by the recovery, ran again and has failed.
C15_Witness ==
    \E id \in JobIds :
        /\ Exists(id)
        /\ executions[id].max_retries = 0
        /\ executions[id].status = "failed"
        /\ runs[id] >= 2
        /\ crashes > 0

\* C16: in every reachable state an execution is running only with its
\* worker_id set, and a pending, suspended, completed or failed execution has a
\* null worker_id.
C16_WorkerIdIffRunning ==
    \A id \in ExecIds :
        Exists(id) => (executions[id].status = "running"
                       <=> executions[id].worker_id # Null)

\* C17: in every reachable state a completed execution has a result and a null
\* error, also when it succeeded on a retry after failed attempts, and a failed
\* execution has an error.
C17_ResultAndError ==
    \A id \in ExecIds :
        Exists(id)
        => /\ executions[id].status = "completed"
              => (executions[id].result # NoResult /\ executions[id].error = Null)
           /\ executions[id].status = "failed" => executions[id].error # Null

\* Execution o is dispatched before execution id: higher priority, or the same
\* priority and an earlier created_at.
Before(o, id) ==
    \/ executions[o].priority > executions[id].priority
    \/ /\ executions[o].priority = executions[id].priority
       /\ executions[o].created_at < executions[id].created_at

\* Execution id is handed to worker w in this step.
ClaimedBy(id, w) ==
    /\ Exists(id)
    /\ executions'[id].status = "running"
    /\ executions'[id].worker_id = w
    /\ ~(executions[id].status = "running" /\ executions[id].worker_id = w)

\* C18: every claim by a worker returns a pending execution of one of that
\* worker's queues before which no other claimable execution of those queues
\* is dispatched (higher priority first, then earlier created_at).
C18_DispatchOrder ==
    [][\A w \in Workers : \A id \in ExecIds :
          ClaimedBy(id, w)
          => /\ executions[id].status = "pending"
             /\ executions[id].queue \in Queues(w)
             /\ \A o \in Claimable(w) : ~Before(o, id)]_vars

\* C18 happens: wC holds the job of higher priority although it was enqueued
\* later, and the job of lower priority, of queue "other", is still pending
\* while wA, which does not serve that queue, has room to claim.
C18_Witness ==
    \E id, o \in JobIds :
        /\ Exists(id) /\ Exists(o)
        /\ executions[id].status = "running"
        /\ executions[id].worker_id = "wC"
        /\ executions[o].status = "pending"
        /\ executions[id].priority > executions[o].priority
        /\ executions[id].created_at > executions[o].created_at
        /\ executions[o].queue = "other"
        /\ FreeSlots("wA") # {}

\* The task of slot k of worker w reports the completion of its execution in
\* this step.
ReportsCompletion(w, k) ==
    /\ tasks[w][k].pc # "idle"
    /\ (Complete(w, k) \/ CompleteCommit(w, k))

\* C19: completing an execution that is already completed with the identical
\* output leaves the whole store as it is, the parent's history and status
\* included, and completing an execution that is failed changes nothing.
C19_CompleteIdempotent ==
    [][\A w \in Workers : \A k \in Slots :
          ReportsCompletion(w, k)
          => LET e == tasks[w][k].exec IN
             /\ (executions[e.id].status = "completed"
                    /\ executions[e.id].result = <<Outcome(e)>>)
                => executions' = executions
             /\ executions[e.id].status = "failed"
                => executions' = executions]_vars

\* The run of workflow e hits a replayed event whose type or name differs from
\* the await being executed.
Mismatch(e) == IsWorkflow(e) /\ Run(e).outcome = "error"

\* C20: a workflow whose replay finds an event of another type or name than the
\* await being executed ends failed: the report of that run never puts it back
\* to pending, whatever attempts remain.
C20_MismatchFailsPermanently ==
    [][\A w \in Workers : \A k \in Slots :
          (tasks[w][k].pc = "executing" /\ Mismatch(tasks[w][k].exec)
              /\ tasks'[w][k].pc = "idle")
          => executions'[tasks[w][k].exec.id].status = "failed"]_vars

\* ---------------------------------------------------------------- C21

\* Jobs enqueued under a name no worker has registered ("ghost") next to a
\* registered one, with any max_retries.
InitRegistry == InitWith({"wA", "wB"}, Null)

NextRegistry ==
    \/ \E id \in JobIds : \E fn \in {"ghost", "good"} : \E n \in 0..MaxRetries :
          EnqueueJob(id, fn, "default", 5, n)
    \/ \E w \in Workers :
         \/ Claim(w)
         \/ ClaimNone(w)
         \/ \E k \in Slots : Start(w, k) \/ Complete(w, k) \/ Fail(w, k)

SpecRegistry == InitRegistry /\ [][NextRegistry]_vars

\* C21: when the function_name of a claimed execution is not in the registry,
\* the step that ends its run leaves the execution failed: it is never put back
\* to pending for a retry, whatever its max_retries.
C21_UnknownFunctionFailsOnce ==
    [][\A w \in Workers : \A k \in Slots :
          (tasks[w][k].pc = "executing"
              /\ ~get_function(tasks[w][k].exec.function_name)
              /\ tasks'[w][k].pc = "idle")
          => executions'[tasks[w][k].exec.id].status = "failed"]_vars

\* ---------------------------------------------------------------- C22

\* A workflow on three workers that may crash between the run of the workflow
\* function and the transaction of the suspend, with the recovery: the workflow
\* is then run again on the history it was run on before.
InitRerun ==
    \E fn \in {"order", "migrate", "sequential_tasks"} : InitWith(Workers, fn)

NextRerun ==
    \E w \in Workers :
        \/ Claim(w)
        \/ ClaimNone(w)
        \/ \E k \in Slots :
             \/ Start(w, k)
             \/ Emit(w, k)
             \/ SuspendEmitted(w, k)
             \/ Complete(w, k)
             \/ CompleteRead(w, k)
             \/ CompleteCommit(w, k)
             \/ Fail(w, k)
        \/ Heartbeat(w)
        \/ (proc[w] = "crashed" /\ TimePasses(w))
        \/ (DeadWorkers # {} /\ RecoverSelect(w))
        \/ RecoverMark(w)
        \/ RecoverReset(w)
        \/ Crash(w)

SpecRerun == InitRerun /\ [][NextRerun]_vars

\* C22: two runs of the same workflow on the same stored history raise the
\* same request: the same command type, task or signal name, position and the
\* same child execution.
C22_SameRequestOnSameHistory ==
    \A a \in requests : \A b \in requests :
        (a.workflow = b.workflow /\ a.history = b.history)
        => (a.position = b.position /\ a.commands = b.commands)

\* ---------------------------------------------------------------- C23

\* C23: get_version returns max when the history holds no event at the cursor
\* and records a version event holding it, and every later run of the workflow
\* returns the recorded value at that point, also under a program whose max has
\* changed: the versions two runs of a workflow hold for a change at a position
\* are the same.
C23_VersionKept ==
    \A a \in requests : \A b \in requests :
        a.workflow = b.workflow
        => \A i \in 1..Len(a.recorded) :
              (/\ i <= Len(b.recorded)
               /\ a.recorded[i].type = "version"
               /\ b.recorded[i].type = "version"
               /\ a.recorded[i].name = b.recorded[i].name)
              => a.recorded[i].value = b.recorded[i].value

\* ---------------------------------------------------------------- C24

\* ctx.is_replaying as the workflow function reads it between two awaits of a
\* run over history h: set to len(history) > 0 when the context is built, and
\* set to False only by the await that finds no event, just before it raises.
is_replaying(h) == Len(h) > 0

\* C24: a program segment guarded by "not is_replaying()" executes the first
\* time it is run; the segment before the final return is first run by the run
\* that completes the workflow, so is_replaying() is False in that run.
C24_FinalSegmentLive ==
    [][\A w \in Workers : \A k \in Slots :
          (/\ tasks[w][k].pc = "executing"
           /\ IsWorkflow(tasks[w][k].exec)
           /\ tasks'[w][k].pc = "idle"
           /\ executions'[tasks[w][k].exec.id].status = "completed")
          => ~is_replaying(tasks[w][k].exec.history)]_vars

\* ---------------------------------------------------------------- C25

\* The workflow "order" on two workers, with cancellations by either client.
InitCancel == InitWith({"wA", "wB"}, "order")

NextCancel ==
    \/ \E id \in ExecIds : CancelExecution(id) \/ CancelByFail(id)
    \/ \E w \in Workers : Claim(w) \/ ClaimNone(w) \/ TaskStep(w)

SpecCancel == InitCancel /\ [][NextCancel]_vars

\* C25: cancel_execution cancels (the execution becomes failed with the
\* cancellation error) exactly the executions that were pending or suspended;
\* an execution that is running, completed or failed is not changed by it.
C25_CancelOnlyWaiting ==
    [][\A id \in ExecIds :
          (/\ Exists(id)
           /\ executions'[id] # executions[id]
           /\ executions'[id].error = "CancellationError"
           /\ executions[id].error # "CancellationError")
          => executions[id].status \in {"pending", "suspended"}]_vars

\* ---------------------------------------------------------------- C26

\* One rhythm worker: any arrival pattern of claimed executions, its listener,
\* its execution tasks and its completer in any interleaving, until it stops.
NextPool ==
    \/ \E n \in 1..(2 * worker_max_concurrent) : ClaimBatch(n)
    \/ Listen
    \/ Enter
    \/ \E ok \in BOOLEAN : Leave(ok)
    \/ Flush
    \/ StopPool

SpecPool == InitWith({"wA"}, Null) /\ [][NextPool]_vars

\* C26: the number of executions a worker runs at the same time never exceeds
\* its concurrency ceiling worker_max_concurrent.
C26_WithinCeiling == pool.current_executions <= worker_max_concurrent

\* The ceiling is reached while further tasks wait at the semaphore.
C26_Witness ==
    /\ pool.current_executions = worker_max_concurrent
    /\ pool.waiting > 0
    /\ pool.semaphore = 0

\* ---------------------------------------------------------------- C27

\* C27: on a graceful stop the heartbeat row is marked stopped only after the
\* in-flight executions have ended: while the worker waits for them (the grace
\* period of Worker.stop has not ended) its row is not stopped.
C27_StoppedAfterDrain ==
    \A w \in Workers :
        (proc[w] = "stopping" /\ \E k \in Slots : tasks[w][k].pc # "idle")
        => heartbeats[w].status # "stopped"

\* ---------------------------------------------------------------- C28

\* Seconds the model lets pass.
MaxClock == 4

\* One second passes.
Tick ==
    /\ clock < MaxClock
    /\ clock' = clock + 1
    /\ UNCHANGED <<executions, signals, heartbeats, proc, tasks, rec, sends, crashes, timeouts, claimed, runs, requests, pool, retry_at, notified, dsl, completions, tracking>>

\* Jobs that raise on every run, enqueued with any max_retries, on two workers,
\* while time passes.
NextBackoff ==
    \/ \E id \in JobIds : \E n \in 0..MaxRetries : EnqueueJob(id, "bad", "default", 5, n)
    \/ \E w \in Workers :
         \/ Claim(w)
         \/ ClaimNone(w)
         \/ \E k \in Slots : Start(w, k) \/ Fail(w, k)
    \/ Tick

SpecBackoff == InitWith({"wA", "wB"}, Null) /\ [][NextBackoff]_vars

\* C28: an execution a retryable failure has put back to pending is not
\* claimed before retry_delay(attempt) has elapsed since the failure; the delay
\* is at most max_delay and does not decrease as attempt grows.
C28_ClaimAfterDelay ==
    [][\A id \in ExecIds :
          (/\ Exists(id)
           /\ executions[id].status = "pending"
           /\ executions'[id].status = "running")
          => /\ clock >= retry_at[id]
             /\ \A a \in 0..MaxRetries :
                   /\ calculate_retry_delay(a) <= max_delay
                   /\ calculate_retry_delay(a) <= calculate_retry_delay(a + 1)]_vars

\* ---------------------------------------------------------------- C29

\* A workflow that awaits no task, one task or two tasks in sequence, on two
\* workers whose heartbeats may lapse while they run, with the recovery.
InitSequential ==
    \E fn \in {"no_tasks", "order", "sequential_tasks"} : InitWith({"wA", "wB"}, fn)

SpecSequential == InitSequential /\ [][Next]_vars

\* The number of tasks the program of workflow p awaits.
Awaited(p) ==
    Cardinality({i \in 1..Len(Program(executions[p].function_name)) :
                    Program(executions[p].function_name)[i].op = "activity"})

\* C29: when a workflow that awaits k tasks in sequence is completed, exactly
\* k child executions have it as parent, all of them completed, and its result
\* is computed from their results; for k = 0 it completes in its first run, is
\* never suspended and creates no child.
C29_SequentialTasks ==
    /\ executions[WF].status = "completed"
        => /\ Cardinality(ChildrenOf(WF)) = Awaited(WF)
           /\ \A c \in ChildrenOf(WF) : executions[c].status = "completed"
           /\ executions[WF].result = <<SumValues(executions[WF].history)>>
           /\ \A i \in 1..Len(executions[WF].history) :
                 executions[WF].history[i].type = "activity"
                 => /\ executions[WF].history[i].id \in ChildrenOf(WF)
                    /\ executions[executions[WF].history[i].id].result
                          = <<executions[WF].history[i].value>>
    /\ Awaited(WF) = 0
        => /\ RunWorkflow(Program(executions[WF].function_name), <<>>).outcome = "completed"
           /\ executions[WF].status # "suspended"
           /\ ChildrenOf(WF) = {}

\* ---------------------------------------------------------------- C30

\* C30: while a child task is pending or running, its parent_workflow_id
\* refers to a workflow that is suspended or running, whatever cancellations,
\* stops, crashes and recoveries have happened.
C30_UnfinishedChildHasLiveParent ==
    \A c \in ExecIds :
        (/\ Exists(c)
         /\ executions[c].parent_workflow_id # Null
         /\ executions[c].status \in {"pending", "running"})
        => /\ Exists(executions[c].parent_workflow_id)
           /\ executions[executions[c].parent_workflow_id].type = "workflow"
           /\ executions[executions[c].parent_workflow_id].status
                 \in {"suspended", "running"}

\* ---------------------------------------------------------------- C31

\* The executions that are children of some workflow.
ChildRows == {c \in ExecIds : Exists(c) /\ executions[c].parent_workflow_id # Null}

\* C31 as stated: a run on a stored history of n events raises exactly one
\* command, and raises it at its (n+1)-th step.
C31_CommandAtStoredLength ==
    \A r \in requests :
        /\ Len(r.commands) = 1
        /\ r.position = Len(r.history) + 1

\* C31: a run on a stored history of n events replays these n events
\* unchanged, records beyond them only version events, and raises exactly one
\* command, of an activity or a signal wait, at the first step beyond the
\* events it holds then; a step of the program creates at most one child.
C31_OneCommandPerRun ==
    [][/\ \A r \in requests' :
             /\ Len(r.commands) = 1
             /\ r.commands[1].type \in {"activity", "wait_signal"}
             /\ IsPrefix(r.history, r.recorded)
             /\ \A i \in (Len(r.history) + 1)..Len(r.recorded) :
                   r.recorded[i].type = "version"
             /\ r.position = Len(r.recorded) + 1
       /\ Cardinality(ChildRows') <= Cardinality(ChildRows) + 1]_vars

C31_Witness ==
    \E r \in requests :
        /\ Len(r.history) >= 1
        /\ r.position = Len(r.history) + 1
        /\ \E c \in ChildRows :
              /\ executions[c].parent_workflow_id = r.workflow
              /\ c = r.commands[1].id

\* ---------------------------------------------------------------- C32

\* C32: a send_signal that found the workflow suspended on a wait for its
\* signal name marks the signal consumed, appends the signal's event after the
\* last event of the stored history, clears the pending wait and sets the
\* workflow pending, all in its commit; in any other case it inserts the
\* signal unconsumed and leaves the execution row as it is.
C32_SendSignalFrame ==
    [][\A s \in SigIds :
          (sends[s] # NoCall /\ sends'[s] = NoCall)
          => IF Delivers(sends[s])
             THEN /\ signals'[s].consumed
                  /\ executions'[WF].history
                        = Append(executions[WF].history, SignalEvent(s, sends[s]))
                  /\ executions'[WF].pending_commands = <<>>
                  /\ executions'[WF].status = "pending"
             ELSE /\ ~signals'[s].consumed
                  /\ executions'[WF] = executions[WF]]_vars

\* ---------------------------------------------------------------- C33

\* C33: every step that puts an execution into pending, by inserting it or by
\* changing its status, leaves a notification on the channel of that
\* execution's queue.
C33_PendingNotifies ==
    [][\A id \in ExecIds :
          (/\ Exists(id)'
           /\ executions'[id].status = "pending"
           /\ (~Exists(id) \/ executions[id].status # "pending"))
          => executions'[id].queue \in notified']_vars

\* ---------------------------------------------------------------- C34

\* The programs of DSL workflows: statements that need no side effect
\* ("assign") and awaits of a task ("await").
DslPrograms ==
    UNION {[1..n -> {"assign", "await"}] : n \in 1..MaxStatements}

\* The two packages whose worker runs DSL workflows.
Packages == {"rhythm", "currant"}

\* A DSL workflow is enqueued, to be run by the worker of a package.
EnqueueDsl(package, program) ==
    /\ dsl = NoDsl
    /\ dsl' = [status |-> "pending", package |-> package, program |-> program,
               statement_index |-> 1, pc |-> "idle"]
    /\ UNCHANGED <<executions, signals, heartbeats, proc, tasks, rec, sends, crashes, timeouts, claimed, runs, requests, pool, clock, retry_at, notified, completions, tracking>>

\* The worker claims the workflow and its task enters _execute_dsl_workflow.
ClaimDsl ==
    /\ dsl # NoDsl
    /\ dsl.status = "pending"
    /\ dsl' = [dsl EXCEPT !.status = "running", !.pc = "executing"]
    /\ UNCHANGED <<executions, signals, heartbeats, proc, tasks, rec, sends, crashes, timeouts, claimed, runs, requests, pool, clock, retry_at, notified, completions, tracking>>

\* One step of the engine on the stored workflow: past the last statement it
\* completes the workflow; an await suspends it, having created the child; any
\* other statement advances statement_index and leaves the status running.
execute_workflow_step_sync(d) ==
    IF d.statement_index > Len(d.program)
    THEN [result |-> "Completed", row |-> [d EXCEPT !.status = "completed"]]
    ELSE IF d.program[d.statement_index] = "await"
         THEN [result |-> "Suspended",
               row |-> [d EXCEPT !.status = "suspended",
                                 !.statement_index = @ + 1]]
         ELSE [result |-> "Continue",
               row |-> [d EXCEPT !.statement_index = @ + 1]]

\* One iteration of the loop of _execute_dsl_workflow of the rhythm worker:
\* "Continue" goes round the loop, anything else breaks out of it.
RhythmExecuteDslWorkflow ==
    LET step == execute_workflow_step_sync(dsl) IN
    /\ dsl # NoDsl
    /\ dsl.package = "rhythm"
    /\ dsl.pc = "executing"
    /\ dsl' = [step.row EXCEPT
                  !.pc = IF step.result = "Continue" THEN "executing" ELSE "idle"]
    /\ UNCHANGED <<executions, signals, heartbeats, proc, tasks, rec, sends, crashes, timeouts, claimed, runs, requests, pool, clock, retry_at, notified, completions, tracking>>

\* _execute_dsl_workflow of the currant worker: one call of the engine, a log
\* line for each of the three results, and the return.
CurrantExecuteDslWorkflow ==
    LET step == execute_workflow_step_sync(dsl) IN
    /\ dsl # NoDsl
    /\ dsl.package = "currant"
    /\ dsl.pc = "executing"
    /\ dsl' = [step.row EXCEPT !.pc = "idle"]
    /\ UNCHANGED <<executions, signals, heartbeats, proc, tasks, rec, sends, crashes, timeouts, claimed, runs, requests, pool, clock, retry_at, notified, completions, tracking>>

\* The awaited task has finished: the suspended workflow is queued again.
ResumeDsl ==
    /\ dsl # NoDsl
    /\ dsl.status = "suspended"
    /\ dsl' = [dsl EXCEPT !.status = "pending"]
    /\ UNCHANGED <<executions, signals, heartbeats, proc, tasks, rec, sends, crashes, timeouts, claimed, runs, requests, pool, clock, retry_at, notified, completions, tracking>>

NextDsl ==
    \/ \E package \in Packages : \E program \in DslPrograms :
          EnqueueDsl(package, program)
    \/ ClaimDsl
    \/ RhythmExecuteDslWorkflow
    \/ CurrantExecuteDslWorkflow
    \/ ResumeDsl

SpecDsl == InitWith({"wA"}, Null) /\ [][NextDsl]_vars

\* C34: a DSL workflow whose status is running has a worker task in
\* _execute_dsl_workflow that will invoke the engine on it again: after a step
\* that returned Continue the worker is still on it.
C34_RunningIsAdvanced ==
    (dsl # NoDsl /\ dsl.status = "running") => dsl.pc = "executing"

\* ---------------------------------------------------------------- C35

\* The engine's step that suspends a workflow on an await: the store creates
\* the child task and suspends the workflow with the command pending.
EngineSuspend(w, k) ==
    LET e == Task(w, k).exec
        r == Run(e)
        cmd == [r.command EXCEPT !.id = NewChildId] IN
    /\ Task(w, k).pc = "executing"
    /\ IsWorkflow(e)
    /\ r.outcome = "suspend"
    /\ r.command.type = "activity"
    /\ Cardinality(Children) < MaxChildren
    /\ executions' = [executions EXCEPT
           ![NewChildId] = NewRow("activity", cmd.name, e.queue, 5,
                                 cmd.retries, e.id, Now),
           ![e.id] = SuspendRow(@, r.history, <<cmd>>)]
    /\ tasks' = Done(w, k)
    /\ UNCHANGED <<signals, heartbeats, proc, rec, sends, crashes, timeouts, claimed, runs, requests, pool, clock, retry_at, notified, dsl, completions, tracking>>

\* The history event _resume_parent_workflow of the currant worker appends.
TaskEvent(e, value) ==
    [type |-> "task", name |-> e.function_name, value |-> value, id |-> e.id]

\* suspend_workflow(workflow_id, checkpoint) followed by
\* resume_workflow(workflow_id), as _resume_parent_workflow calls them: "this
\* will set status to suspended", then "set status back to pending".
SuspendThenResumeRow(row, history) ==
    [row EXCEPT !.status = "pending", !.history = history]

\* _complete_execution of the currant worker: the outcome is appended to the
\* worker's completion_queue and, for a child, the parent is resumed at once
\* with the result in its history; a store that refuses to suspend a workflow
\* that is not running raises, and the raise is handled as a failure of the
\* child.
CurrantComplete(w, k) ==
    LET e == Task(w, k).exec
        v == Outcome(e)
        p == e.parent_workflow_id IN
    /\ Task(w, k).pc = "executing"
    /\ Returns(e)
    /\ completions' = [completions EXCEPT
                          ![w] = Append(@, [id |-> e.id, result |-> v])]
    /\ IF p = Null
       THEN UNCHANGED <<executions, claimed>>
       ELSE \/ /\ executions' = [executions EXCEPT
                     ![p] = SuspendThenResumeRow(@,
                                Append(executions[p].history, TaskEvent(e, v)))]
               /\ claimed' = [claimed EXCEPT ![p] = 0]
            \/ /\ executions[p].status # "running"
               /\ executions' = [executions EXCEPT
                     ![e.id] = FailExecutionRow(@, "IllegalTransition",
                                                e.attempt + 1 < e.max_retries)]
               /\ claimed' = [claimed EXCEPT
                     ![e.id] = IF e.attempt + 1 < e.max_retries THEN 0 ELSE @]
    /\ tasks' = Done(w, k)
    /\ UNCHANGED <<signals, heartbeats, proc, rec, sends, crashes, timeouts, runs, requests, pool, clock, retry_at, notified, dsl, tracking>>

\* complete_batch of the store on one pair: a running row becomes completed, a
\* row already completed with that result is left as it is.
CompleteBatchRow(row, result) ==
    IF row.status = "running" THEN CompleteRow(row, result) ELSE row

\* The pairs of a batch the store accepts.
Accepted(batch) ==
    \A i \in 1..Len(batch) :
        \/ executions[batch[i].id].status = "running"
        \/ /\ executions[batch[i].id].status = "completed"
           /\ executions[batch[i].id].result = <<batch[i].result>>

\* _flush_completions of the currant worker: the queue is taken as the batch
\* and cleared, complete_executions_batch is called, and when it raises the
\* batch is put back.
CurrantFlush(w) ==
    LET batch == completions[w] IN
    /\ batch # <<>>
    /\ IF Accepted(batch)
       THEN /\ executions' = [id \in ExecIds |->
                   IF \E i \in 1..Len(batch) : batch[i].id = id
                   THEN CompleteBatchRow(executions[id],
                            batch[CHOOSE i \in 1..Len(batch) : batch[i].id = id].result)
                   ELSE executions[id]]
            /\ completions' = [completions EXCEPT ![w] = <<>>]
       ELSE UNCHANGED <<executions, completions, tracking>>
    /\ UNCHANGED <<signals, heartbeats, proc, tasks, rec, sends, crashes, timeouts, claimed, runs, requests, pool, clock, retry_at, notified, dsl, tracking>>

\* _handle_execution_failure of the currant worker: execution.attempt += 1,
\* then fail_execution with retry while attempt < max_retries.
CurrantFail(w, k) ==
    LET e == Task(w, k).exec IN
    /\ Task(w, k).pc = "executing"
    /\ Raises(e)
    /\ executions' = [executions EXCEPT
          ![e.id] = FailExecutionRow(@, ErrorOf(e), e.attempt + 1 < e.max_retries)]
    /\ claimed' = [claimed EXCEPT
                     ![e.id] = IF e.attempt + 1 < e.max_retries THEN 0 ELSE @]
    /\ tasks' = Done(w, k)
    /\ UNCHANGED <<signals, heartbeats, proc, rec, sends, crashes, timeouts, runs, requests, pool, clock, retry_at, notified, dsl, completions, tracking>>

\* The workflow "order" on two currant workers.
NextCurrant ==
    \E w \in {"wA", "wB"} :
        \/ Claim(w)
        \/ ClaimNone(w)
        \/ CurrantFlush(w)
        \/ \E k \in Slots :
              \/ Start(w, k)
              \/ EngineSuspend(w, k)
              \/ CurrantComplete(w, k)
              \/ CurrantFail(w, k)

SpecCurrant == InitWith({"wA", "wB"}, "order") /\ [][NextCurrant]_vars

\* C35: the history of a workflow holds the result of a child only when the
\* store has the child completed: no child whose result is in its parent's
\* history is running.
C35_ResultAfterCompleted ==
    \A c \in ChildRows :
        (\E i \in 1..Len(executions[executions[c].parent_workflow_id].history) :
            executions[executions[c].parent_workflow_id].history[i].id = c)
        => executions[c].status # "running"

\* ---------------------------------------------------------------- C36

\* C36: the suspend of a workflow by a worker's task takes effect only when
\* the stored execution is running: when it is pending, suspended, completed
\* or failed by then, the step leaves the workflow's row as it is and creates
\* no child.
C36_SuspendOnlyRunning ==
    [][\A w \in Workers : \A k \in Slots :
          (/\ Task(w, k).pc = "executing"
           /\ IsWorkflow(Task(w, k).exec)
           /\ Run(Task(w, k).exec).outcome = "suspend"
           /\ tasks'[w][k] = NoTask
           /\ executions[Task(w, k).exec.id].status # "running")
          => /\ executions'[Task(w, k).exec.id] = executions[Task(w, k).exec.id]
             /\ ChildRows' = ChildRows]_vars

\* ---------------------------------------------------------------- C37

\* C37: the executions a worker has claimed and not begun to execute, in its
\* local queue or in tasks waiting for the semaphore, are never more than
\* 2 * worker_max_concurrent, and with those it executes never more than
\* 3 * worker_max_concurrent.
C37_PrefetchWindow ==
    /\ pool.local_queue + pool.waiting <= 2 * worker_max_concurrent
    /\ pool.local_queue + pool.waiting + pool.current_executions
          <= 3 * worker_max_concurrent

\* ---------------------------------------------------------------- C38

\* One counter-based worker with its listener loop and its poll loop, and the
\* executions enqueued on its queue.
SpecTracking == InitWith({"wA"}, Null) /\ [][NextTracking]_vars

\* C38: in the counter-based worker the number of executions in flight, as
\* current_executions counts them, never exceeds worker_max_concurrent.
C38_CounterWithinCeiling ==
    tracking.current_executions <= worker_max_concurrent

\* ---------------------------------------------------------------- C39

\* C39: every successful outcome placed in the completion buffer is in the
\* buffer or was submitted in exactly one successful batch, and once the
\* worker has stopped and its executions have finished the buffer is empty:
\* the outcomes of the grace period and those of a failed flush were submitted.
C39_OutcomesSubmitted ==
    /\ pool.submitted + pool.completion_queue = pool.placed
    /\ (~pool.running /\ pool.current_executions = 0 /\ pool.waiting = 0)
          => pool.completion_queue = 0

\* ---------------------------------------------------------------- C40

\* The executions a step has changed.
Changed == {id \in ExecIds : executions'[id] # executions[id]}

\* A worker's recovery executes its last statement, the reset.
ResetBy(w) == rec[w].pc = "marked" /\ rec'[w].pc = "idle" /\ proc' = proc

\* C40: the reset of a recovery changes only executions that are running and
\* claimed by a worker whose heartbeat is older than the timeout; executions
\* claimed by a worker with a fresh heartbeat and pending, suspended,
\* completed and failed executions are left as they are, and the same reset
\* applied again changes nothing.
C40_RecoveryFrame ==
    [][\A w \in Workers :
          ResetBy(w)
          => /\ \A id \in Changed :
                   /\ executions[id] # NoRow
                   /\ executions[id].status = "running"
                   /\ executions[id].worker_id # Null
                   /\ heartbeats[executions[id].worker_id] # NoRow
                   /\ ~heartbeats[executions[id].worker_id].fresh
             /\ \A id \in ExecIds :
                   RecoverRow(executions'[id], rec[w].dead) = executions'[id]]_vars

====
